---------------------------- MODULE Spec2Model ----------------------------
(***************************************************************************)
(* The Xcode project patching scripts of WardenApp:                        *)
(*   add_files_auto.py    backup, splice three sections, restore on False  *)
(*   add_to_xcode_v2.py   backup, group lookup, splices, group regex subs  *)
(*   fix_file_paths.py    the path correction pass                         *)
(*                                                                         *)
(* The manifest text is a sequence of symbols.  A symbol stands for one    *)
(* literal piece of project.pbxproj text that the scripts search for or    *)
(* insert (a section marker, an array opener, a record line).  Offsets,    *)
(* str.find and slicing follow Python: 0-based, -1 for "not found",        *)
(* negative indices counted from the end.                                  *)
(***************************************************************************)
EXTENDS Integers, Sequences, FiniteSets, TLC

VARIABLES
    script,        \* which script this run executes: "auto", "v2" or "fix"
    pc,            \* position in the script
    disk,          \* content of project.pbxproj on disk
    backup,        \* <<>> while no backup file exists, else <<its content>>
    existing,      \* the source paths that exist on disk
    files_to_add,  \* the list of source files to add
    content,       \* the in-memory text buffer
    file_entries,  \* per file: filename, file_ref_uuid, build_file_uuid
    groups,        \* the group uuids (0 while unset)
    collided,      \* whether uuid4 has already repeated a value in this run
    orig,          \* history: the manifest as it stood before the run
    result,        \* "running", "success", "failed" (exit 1) or "crashed"
    fix_hist       \* history: the disk content after each fix_file_paths run

vars == <<script, pc, disk, backup, existing, files_to_add, content,
          file_entries, groups, collided, orig, result, fix_hist>>

-----------------------------------------------------------------------------
(* Bounds of the model.                                                    *)

\* how many things may be absent from the environment of one run:
\* symbols of the well-formed manifest, and source files
MaxMissing == 1
\* add_files_to_pbxproj is run on the first 1..MaxFiles of the listed files
MaxFiles == 2
\* how many symbols of the new text a failed write may have flushed
MaxPartial == 1
\* how often fix_file_paths.py is run on the same manifest
MaxFixRuns == 2
\* length of the texts fix_file_paths.py is run on
MaxFixLen == 5

-----------------------------------------------------------------------------
(* Python's sequence operations.                                           *)

Min(S) == CHOOSE x \in S : \A y \in S : x <= y
Max(S) == CHOOSE x \in S : \A y \in S : x >= y

\* a slice or start index clamped as Python clamps it
Norm(i, n) == IF i < 0 THEN (IF i + n < 0 THEN 0 ELSE i + n)
              ELSE IF i > n THEN n ELSE i

\* s[:i] and s[i:]
Upto(s, i) == SubSeq(s, 1, Norm(i, Len(s)))
From(s, i) == SubSeq(s, Norm(i, Len(s)) + 1, Len(s))

\* s.find(sym, start): the least offset >= start holding sym, or -1
Find(s, sym, start) ==
    LET hits == {i \in Norm(start, Len(s)) .. Len(s) - 1 : s[i + 1] = sym}
    IN  IF hits = {} THEN -1 ELSE Min(hits)

\* the faulty splice content[:pos] + new + content[pos + 1:], which
\* overwrites the symbol at the offset
InsertAtOverwriting(s, pos, new) == Upto(s, pos) \o new \o From(s, pos + 1)

\* content[:pos] + ''.join(entries) + content[pos:]
InsertAt(s, pos, new) == Upto(s, pos) \o new \o From(s, pos)

RECURSIVE Flatten(_)
Flatten(ss) == IF ss = <<>> THEN <<>> ELSE Head(ss) \o Flatten(Tail(ss))

-----------------------------------------------------------------------------
(* The symbols of the manifest text.                                       *)

Sym(kind) == [k |-> kind, n |-> "", id |-> 0, ref |-> 0]

BeginBF      == Sym("BeginBF")       \* '/* Begin PBXBuildFile section */'
EndBF        == Sym("EndBF")         \* '/* End PBXBuildFile section */'
BeginFR      == Sym("BeginFR")       \* '/* Begin PBXFileReference section */'
EndFR        == Sym("EndFR")         \* '/* End PBXFileReference section */'
BeginSBP     == Sym("BeginSBP")      \* '/* Begin PBXSourcesBuildPhase section */'
FilesOpen    == Sym("FilesOpen")     \* 'files = ('
Close        == Sym("Close")         \* ');'
BeginGroup   == Sym("BeginGroup")    \* '/* Begin PBXGroup section */'
EndGroup     == Sym("EndGroup")      \* '/* End PBXGroup section */'
IsaGroup     == Sym("IsaGroup")      \* '\n\t\t\tisa = PBXGroup;'
ChildrenOpen == Sym("ChildrenOpen")  \* '\n\t\t\tchildren = ('
GroupTail    == Sym("GroupTail")     \* 'path = ..; sourceTree = "<group>"; };'
NL           == Sym("NL")            \* the newline that ends the file

\* 'ID /* name */ = {'
Hdr(i, name) == [k |-> "Hdr", n |-> name, id |-> i, ref |-> 0]
\* 'ID /* fn in Sources */ = {isa = PBXBuildFile; fileRef = REF /* fn */; };'
BuildFileLine(e) ==
    [k |-> "BuildFile", n |-> e.filename, id |-> e.build_file_uuid,
     ref |-> e.file_ref_uuid]
\* 'ID /* fn */ = {isa = PBXFileReference; ...; path = fn; ...; };'
FileRefLine(e) ==
    [k |-> "FileRef", n |-> e.filename, id |-> e.file_ref_uuid, ref |-> 0]
\* 'ID /* fn in Sources */,'
SourceRefLine(e) ==
    [k |-> "SourceRef", n |-> e.filename, id |-> e.build_file_uuid, ref |-> 0]
\* 'ID /* name */,' in a children list
ChildLine(i, name) == [k |-> "Child", n |-> name, id |-> i, ref |-> 0]

\* every identifier that occurs in a text
IdsOf(s) == ({s[i].id : i \in 1..Len(s)} \cup {s[i].ref : i \in 1..Len(s)}) \ {0}


-----------------------------------------------------------------------------
(* The environment of a run: the manifest on disk and the source files.    *)

\* the files listed in add_files_auto.py and add_to_xcode_v2.py
AllPaths == <<[dir |-> "Core/MCP",           name |-> "MCPServerConfig.swift"],
              [dir |-> "Core/MCP",           name |-> "MCPManager.swift"],
              [dir |-> "UI/Preferences/MCP", name |-> "AddMCPAgentSheet.swift"],
              [dir |-> "UI/Preferences/MCP", name |-> "MCPSettingsView.swift"],
              [dir |-> "UI/Chat",            name |-> "MCPAgentSelector.swift"]>>

\* os.path.basename
Basename(p) == p.name

\* identifiers of the groups a well-formed manifest already holds
GroupIds == [warden |-> 1, prefs |-> 2, chat |-> 3]

\* a well-formed manifest: the four sections and the three groups the
\* scripts look for
BaseManifest ==
    << BeginBF, EndBF, BeginFR, EndFR, BeginGroup,
       Hdr(GroupIds.warden, "Warden"), IsaGroup, ChildrenOpen,
           ChildLine(GroupIds.prefs, "Preferences"), ChildLine(GroupIds.chat, "Chat"),
           Close, GroupTail,
       Hdr(GroupIds.prefs, "Preferences"), IsaGroup, ChildrenOpen, Close, GroupTail,
       Hdr(GroupIds.chat, "Chat"), IsaGroup, ChildrenOpen, Close, GroupTail,
       EndGroup, BeginSBP, FilesOpen, Close, NL >>

\* the pieces of structure a manifest may lack: every marker, header and
\* array delimiter (positions of BaseManifest)
Droppable ==
    {i \in 1..Len(BaseManifest) :
        BaseManifest[i].k \notin {"NL", "Child", "GroupTail"}}

RECURSIVE KeepFrom(_, _, _)
KeepFrom(s, i, dropped) ==
    IF i > Len(s) THEN <<>>
    ELSE (IF i \in dropped THEN <<>> ELSE <<s[i]>>) \o KeepFrom(s, i + 1, dropped)

\* what may be absent: positions of the manifest, and (offset by the
\* manifest's length) source files
RECURSIVE SubsetsUpTo(_, _)
SubsetsUpTo(S, k) ==
    IF k = 0 THEN {{}}
    ELSE LET smaller == SubsetsUpTo(S, k - 1)
         IN  smaller \cup {D \cup {x} : D \in smaller, x \in S}

Absences ==
    SubsetsUpTo(Droppable \cup {Len(BaseManifest) + j : j \in 1..Len(AllPaths)},
                MaxMissing)

ManifestOf(D) == KeepFrom(BaseManifest, 1, D)
ExistingOf(D) == {AllPaths[j] : j \in {j \in 1..Len(AllPaths) : Len(BaseManifest) + j \notin D}}

NoGroups == [core |-> 0, core_mcp |-> 0, ui_prefs_mcp |-> 0,
             chat |-> 0, prefs |-> 0, warden |-> 0]

InitPatch ==
    /\ script \in {"auto", "v2"}
    /\ \E D \in Absences :
          /\ disk = ManifestOf(D)
          /\ existing = ExistingOf(D)
    /\ \E n \in 1..MaxFiles :
          files_to_add = IF script = "auto" THEN SubSeq(AllPaths, 1, n) ELSE AllPaths
    /\ pc = IF script = "auto" THEN "a_check" ELSE "v_read"
    /\ backup = <<>>
    /\ content = <<>>
    /\ file_entries = <<>>
    /\ groups = NoGroups
    /\ collided = FALSE
    /\ orig = disk
    /\ result = "running"
    /\ fix_hist = <<>>

-----------------------------------------------------------------------------
(* generate_uuid: uuid4().hex[:24].upper(), a random draw that looks at    *)
(* nothing.  Identifiers are opaque to the scripts, so one unused value    *)
(* stands for every draw that repeats nothing; a draw may also repeat any  *)
(* value in use (in the manifest or drawn earlier), once per run.          *)

Fresh(used) == IF used = {} THEN 1 ELSE Max(used) + 1

generate_uuid(used, hit) == {Fresh(used)} \cup (IF hit THEN {} ELSE used)

\* n draws in a row: the sequences of values they may return
RECURSIVE Draws(_, _, _)
Draws(used, hit, n) ==
    IF n = 0 THEN {<<>>}
    ELSE UNION { {<<u>> \o rest : rest \in Draws(used \cup {u}, hit \/ u \in used, n - 1)}
                 : u \in generate_uuid(used, hit) }

Range(s) == {s[i] : i \in 1..Len(s)}

-----------------------------------------------------------------------------
(* add_files_auto.py                                                       *)

Exit(r) == pc' = "exit" /\ result' = r

\* __main__: check that the files exist
ACheckFiles ==
    /\ pc = "a_check"
    /\ LET missing_files == {i \in 1..Len(files_to_add) : files_to_add[i] \notin existing}
       IN  IF missing_files # {} THEN Exit("failed")
           ELSE pc' = "a_backup" /\ UNCHANGED result
    /\ UNCHANGED <<script, disk, backup, existing, files_to_add, content,
                   file_entries, groups, collided, orig, fix_hist>>

\* __main__: shutil.copy2(pbxproj_path, backup_path)
ABackup ==
    /\ pc = "a_backup"
    /\ backup' = <<disk>>
    /\ pc' = "a_read"
    /\ UNCHANGED <<script, disk, existing, files_to_add, content,
                   file_entries, groups, collided, orig, result, fix_hist>>

\* add_files_to_pbxproj: content = f.read()
ARead ==
    /\ pc = "a_read"
    /\ content' = disk
    /\ pc' = "a_alloc"
    /\ UNCHANGED <<script, disk, backup, existing, files_to_add,
                   file_entries, groups, collided, orig, result, fix_hist>>

\* add_files_to_pbxproj: one iteration of the loop that draws two uuids
AAllocEntry ==
    /\ pc = "a_alloc"
    /\ LET filepath == files_to_add[Len(file_entries) + 1]
           used == IdsOf(content) \cup {file_entries[i].file_ref_uuid : i \in 1..Len(file_entries)}
                       \cup {file_entries[i].build_file_uuid : i \in 1..Len(file_entries)}
       IN  \E d \in Draws(used, collided, 2) :
              /\ file_entries' = Append(file_entries,
                                   [filename |-> Basename(filepath),
                                    file_ref_uuid |-> d[1],
                                    build_file_uuid |-> d[2]])
              /\ collided' = (collided \/ d[1] \in used \/ d[2] \in used \/ d[1] = d[2])
    /\ pc' = IF Len(file_entries') = Len(files_to_add) THEN "a_bf" ELSE "a_alloc"
    /\ UNCHANGED <<script, disk, backup, existing, files_to_add, content,
                   groups, orig, result, fix_hist>>

build_file_entries == [i \in 1..Len(file_entries) |-> BuildFileLine(file_entries[i])]
file_ref_entries   == [i \in 1..Len(file_entries) |-> FileRefLine(file_entries[i])]
source_ref_entries == [i \in 1..Len(file_entries) |-> SourceRefLine(file_entries[i])]

\* add_files_to_pbxproj: the PBXBuildFile section
ABuildFileSection ==
    /\ pc = "a_bf"
    /\ LET build_file_section_start == Find(content, BeginBF, 0)
           build_file_section_end == Find(content, EndBF, build_file_section_start)
       IN  IF build_file_section_start = -1
           THEN pc' = "a_restore" /\ UNCHANGED content
           ELSE /\ content' = InsertAt(content, build_file_section_end, build_file_entries)
                /\ pc' = "a_fr"
    /\ UNCHANGED <<script, disk, backup, existing, files_to_add,
                   file_entries, groups, collided, orig, result, fix_hist>>

\* add_files_to_pbxproj: the PBXFileReference section
AFileRefSection ==
    /\ pc = "a_fr"
    /\ LET file_ref_section_start == Find(content, BeginFR, 0)
           file_ref_section_end == Find(content, EndFR, file_ref_section_start)
       IN  IF file_ref_section_start = -1
           THEN pc' = "a_restore" /\ UNCHANGED content
           ELSE /\ content' = InsertAt(content, file_ref_section_end, file_ref_entries)
                /\ pc' = "a_sbp"
    /\ UNCHANGED <<script, disk, backup, existing, files_to_add,
                   file_entries, groups, collided, orig, result, fix_hist>>

\* add_files_to_pbxproj: the files array of the PBXSourcesBuildPhase section
ASourcesPhase ==
    /\ pc = "a_sbp"
    /\ LET sources_build_phase_start == Find(content, BeginSBP, 0)
           files_array_start == Find(content, FilesOpen, sources_build_phase_start)
           files_array_end == Find(content, Close, files_array_start)
       IN  IF sources_build_phase_start = -1 \/ files_array_start = -1
           THEN pc' = "a_restore" /\ UNCHANGED content
           ELSE /\ content' = InsertAt(content, files_array_end, source_ref_entries)
                /\ pc' = "a_open"
    /\ UNCHANGED <<script, disk, backup, existing, files_to_add,
                   file_entries, groups, collided, orig, result, fix_hist>>

\* open(pbxproj_path, 'w'): the file is truncated
OpenForWriting(next) ==
    /\ disk' = <<>>
    /\ pc' = next
    /\ UNCHANGED <<script, backup, existing, files_to_add, content,
                   file_entries, groups, collided, orig, result, fix_hist>>

\* f.write(content) and the close that flushes it
WriteBack ==
    /\ disk' = content
    /\ Exit("success")
    /\ UNCHANGED <<script, backup, existing, files_to_add, content,
                   file_entries, groups, collided, orig, fix_hist>>

\* f.write(content) raises OSError after part of the text was flushed;
\* neither script catches it
WriteRaises ==
    /\ \E n \in 0..Min({MaxPartial, Len(content) - 1}) : disk' = SubSeq(content, 1, n)
    /\ Exit("crashed")
    /\ UNCHANGED <<script, backup, existing, files_to_add, content,
                   file_entries, groups, collided, orig, fix_hist>>

AOpen == pc = "a_open" /\ OpenForWriting("a_write")
AWrite == pc = "a_write" /\ WriteBack
AWriteFails == pc = "a_write" /\ WriteRaises

\* __main__: add_files_to_pbxproj returned False: copy the backup back
ARestore ==
    /\ pc = "a_restore"
    /\ disk' = backup[1]
    /\ Exit("failed")
    /\ UNCHANGED <<script, backup, existing, files_to_add, content,
                   file_entries, groups, collided, orig, fix_hist>>

-----------------------------------------------------------------------------
(* add_to_xcode_v2.py                                                      *)

\* content = f.read()
V2Read ==
    /\ pc = "v_read"
    /\ content' = disk
    /\ pc' = "v_backup"
    /\ UNCHANGED <<script, disk, backup, existing, files_to_add,
                   file_entries, groups, collided, orig, result, fix_hist>>

\* shutil.copy2(pbxproj_path, backup_path)
V2Backup ==
    /\ pc = "v_backup"
    /\ backup' = <<disk>>
    /\ pc' = "v_alloc"
    /\ UNCHANGED <<script, disk, existing, files_to_add, content,
                   file_entries, groups, collided, orig, result, fix_hist>>

\* the three group uuids, then file_data: two uuids per file, in order.
\* (file_data's 'path' and 'group_uuid' are stored and never read.)
V2Alloc ==
    /\ pc = "v_alloc"
    /\ \E d \in Draws(IdsOf(content), collided, 3 + 2 * Len(files_to_add)) :
          /\ groups' = [groups EXCEPT !.core = d[1], !.core_mcp = d[2],
                                      !.ui_prefs_mcp = d[3]]
          /\ file_entries' = [i \in 1..Len(files_to_add) |->
                                 [filename |-> Basename(files_to_add[i]),
                                  file_ref_uuid |-> d[2 + 2 * i],
                                  build_file_uuid |-> d[3 + 2 * i]]]
          /\ collided' = (Cardinality(Range(d) \cup IdsOf(content))
                             < Len(d) + Cardinality(IdsOf(content)))
    /\ pc' = "v_lookup"
    /\ UNCHANGED <<script, disk, backup, existing, files_to_add, content,
                   orig, result, fix_hist>>

\* re.search(r'([A-F0-9]{24}) /\* name \*/ = \{', content): the offsets of
\* the matches
HdrMatches(s, name) == {i \in 1..Len(s) : s[i].k = "Hdr" /\ s[i].n = name}

\* re.search(r'([A-F0-9]{24}) /\* name \*/ = \{\n\s+isa = PBXGroup;', content)
GroupHdrMatches(s, name) ==
    {i \in HdrMatches(s, name) : i + 1 <= Len(s) /\ s[i + 1] = IsaGroup}

\* the lookups of the Chat, Preferences and Warden group uuids; exit(1) when
\* one has no match
V2Lookup ==
    /\ pc = "v_lookup"
    /\ LET chat_group_match   == HdrMatches(content, "Chat")
           prefs_group_match  == HdrMatches(content, "Preferences")
           warden_group_match == GroupHdrMatches(content, "Warden")
       IN  IF chat_group_match = {} \/ prefs_group_match = {} \/ warden_group_match = {}
           THEN Exit("failed") /\ UNCHANGED groups
           ELSE /\ groups' = [groups EXCEPT
                                 !.chat   = content[Min(chat_group_match)].id,
                                 !.prefs  = content[Min(prefs_group_match)].id,
                                 !.warden = content[Min(warden_group_match)].id]
                /\ pc' = "v_sections"
                /\ UNCHANGED result
    /\ UNCHANGED <<script, disk, backup, existing, files_to_add, content,
                   file_entries, collided, orig, fix_hist>>

\* steps 1 to 3: the PBXBuildFile section, the PBXFileReference section and
\* the files array of PBXSourcesBuildPhase; no offset is tested
V2Sections ==
    /\ pc = "v_sections"
    /\ LET build_file_section_start == Find(content, BeginBF, 0)
           build_file_section_end == Find(content, EndBF, build_file_section_start)
           c1 == InsertAt(content, build_file_section_end, build_file_entries)
           file_ref_section_start == Find(c1, BeginFR, 0)
           file_ref_section_end == Find(c1, EndFR, file_ref_section_start)
           c2 == InsertAt(c1, file_ref_section_end, file_ref_entries)
           sources_build_phase_start == Find(c2, BeginSBP, 0)
           files_array_start == Find(c2, FilesOpen, sources_build_phase_start)
           files_array_end == Find(c2, Close, files_array_start)
       IN  content' = InsertAt(c2, files_array_end, source_ref_entries)
    /\ pc' = "v_groups"
    /\ UNCHANGED <<script, disk, backup, existing, files_to_add,
                   file_entries, groups, collided, orig, result, fix_hist>>

\* the text of a new group record
GroupRecord(i, name, children) ==
    <<Hdr(i, name), IsaGroup, ChildrenOpen>> \o children \o <<Close, GroupTail>>

FileChild(i) == ChildLine(file_entries[i].file_ref_uuid, file_entries[i].filename)

\* step 4: the Core, Core/MCP and UI/Preferences/MCP group records
V2CreateGroups ==
    /\ pc = "v_groups"
    /\ LET group_section_start == Find(content, BeginGroup, 0)
           group_section_end == Find(content, EndGroup, group_section_start)
           core_group == GroupRecord(groups.core, "Core",
                                     <<ChildLine(groups.core_mcp, "MCP")>>)
           core_mcp_group == GroupRecord(groups.core_mcp, "MCP",
                                         <<FileChild(1), FileChild(2)>>)
           ui_prefs_mcp_group == GroupRecord(groups.ui_prefs_mcp, "MCP",
                                             <<FileChild(3), FileChild(4)>>)
       IN  content' = InsertAt(content, group_section_end,
                               core_group \o core_mcp_group \o ui_prefs_mcp_group)
    /\ pc' = "v_attach"
    /\ UNCHANGED <<script, disk, backup, existing, files_to_add,
                   file_entries, groups, collided, orig, result, fix_hist>>

\* re.sub(rf'({uuid} /\* name \*/ = \{{\n\s+isa = PBXGroup;\n\s+children = \()',
\*        rf'\1\n\t\t\t\t{child} /* childname */,', content), scanning from i:
\* every match is kept and followed by the new line
RECURSIVE ReSubGroup(_, _, _, _)
ReSubGroup(s, i, hdr, line) ==
    IF i > Len(s) THEN <<>>
    ELSE IF i + 2 <= Len(s) /\ s[i] = hdr /\ s[i + 1] = IsaGroup /\ s[i + 2] = ChildrenOpen
         THEN <<s[i], s[i + 1], s[i + 2], line>> \o ReSubGroup(s, i + 3, hdr, line)
         ELSE <<s[i]>> \o ReSubGroup(s, i + 1, hdr, line)

\* steps 5 to 7: Core into Warden, MCP into Preferences, MCPAgentSelector
\* into Chat
V2AttachGroups ==
    /\ pc = "v_attach"
    /\ LET c5 == ReSubGroup(content, 1, Hdr(groups.warden, "Warden"),
                            ChildLine(groups.core, "Core"))
           c6 == ReSubGroup(c5, 1, Hdr(groups.prefs, "Preferences"),
                            ChildLine(groups.ui_prefs_mcp, "MCP"))
       IN  content' = ReSubGroup(c6, 1, Hdr(groups.chat, "Chat"), FileChild(5))
    /\ pc' = "v_open"
    /\ UNCHANGED <<script, disk, backup, existing, files_to_add,
                   file_entries, groups, collided, orig, result, fix_hist>>

V2Open == pc = "v_open" /\ OpenForWriting("v_write")
V2Write == pc = "v_write" /\ WriteBack
V2WriteFails == pc = "v_write" /\ WriteRaises

-----------------------------------------------------------------------------
Next ==
    \/ ACheckFiles \/ ABackup \/ ARead \/ AAllocEntry
    \/ ABuildFileSection \/ AFileRefSection \/ ASourcesPhase
    \/ AOpen \/ AWrite \/ AWriteFails \/ ARestore
    \/ V2Read \/ V2Backup \/ V2Alloc \/ V2Lookup \/ V2Sections
    \/ V2CreateGroups \/ V2AttachGroups \/ V2Open \/ V2Write \/ V2WriteFails

Spec == InitPatch /\ [][Next]_vars

-----------------------------------------------------------------------------
(* fix_file_paths.py                                                       *)

\* the pieces of text the path correction pattern tells apart
FileRefHead(fn) == [k |-> "FileRefHead", n |-> fn, id |-> 0, ref |-> 0]
                                  \* '/* fn */ = {isa = PBXFileReference;'
PathEq   == Sym("PathEq")         \* ' path = '
Semi     == Sym("Semi")           \* ';'
Field    == Sym("Field")          \* other text without a ';'
NameText(fn) == [k |-> "Name", n |-> fn, id |-> 0, ref |-> 0]   \* 'fn'
DirText(d)   == [k |-> "Dir", n |-> d, id |-> 0, ref |-> 0]     \* 'd/'

\* file_fixes: filename -> correct path, in the order of the dict
file_fixes ==
    [i \in 1..Len(AllPaths) |->
        [filename |-> AllPaths[i].name,
         correct_path |-> <<DirText(AllPaths[i].dir), NameText(AllPaths[i].name)>>]]

\* the offset of ' path = ' in the match of
\*   (/\* fn \*/ = {isa = PBXFileReference;[^;]+path = )fn
\* that starts at offset i, or 0 when none starts there: [^;]+ is greedy, so
\* it is the last ' path = fn' that no ';' separates from the head
PathMatch(s, i, fn) ==
    LET js == {j \in (i + 1)..(Len(s) - 1) :
                  /\ s[j] = PathEq /\ s[j + 1] = NameText(fn)
                  /\ \A m \in (i + 1)..(j - 1) : s[m].k \notin {"Semi", "FileRefHead"}}
    IN  IF s[i] = FileRefHead(fn) /\ js # {} THEN Max(js) ELSE 0

\* re.sub(pattern, rf'\1{correct_path}', content), scanning from offset i
RECURSIVE ReSubPath(_, _, _, _)
ReSubPath(s, i, fn, correct_path) ==
    IF i > Len(s) THEN <<>>
    ELSE LET j == PathMatch(s, i, fn)
         IN  IF j # 0
             THEN SubSeq(s, i, j) \o correct_path \o ReSubPath(s, j + 2, fn, correct_path)
             ELSE <<s[i]>> \o ReSubPath(s, i + 1, fn, correct_path)

\* the loop over file_fixes, from entry i on
RECURSIVE FixPaths(_, _)
FixPaths(s, i) ==
    IF i > Len(file_fixes) THEN s
    ELSE FixPaths(ReSubPath(s, 1, file_fixes[i].filename, file_fixes[i].correct_path), i + 1)

\* the texts the script is run on
FixAlphabet == {FileRefHead(AllPaths[1].name), PathEq, Semi, Field,
                NameText(AllPaths[1].name), NameText(AllPaths[2].name)}

FixTexts == UNION {[1..n -> FixAlphabet] : n \in 1..MaxFixLen}

InitFix ==
    /\ script = "fix"
    /\ disk \in FixTexts
    /\ pc = "f_read"
    /\ existing = {}
    /\ files_to_add = <<>>
    /\ backup = <<>>
    /\ content = <<>>
    /\ file_entries = <<>>
    /\ groups = NoGroups
    /\ collided = FALSE
    /\ orig = disk
    /\ result = "running"
    /\ fix_hist = <<>>

\* content = f.read()
FixRead ==
    /\ pc = "f_read"
    /\ Len(fix_hist) < MaxFixRuns
    /\ content' = disk
    /\ pc' = "f_apply"
    /\ UNCHANGED <<script, disk, backup, existing, files_to_add,
                   file_entries, groups, collided, orig, result, fix_hist>>

\* the loop that updates the file references
FixApply ==
    /\ pc = "f_apply"
    /\ content' = FixPaths(content, 1)
    /\ pc' = "f_write"
    /\ UNCHANGED <<script, disk, backup, existing, files_to_add,
                   file_entries, groups, collided, orig, result, fix_hist>>

\* f.write(content); the script ends and may be run again
FixWrite ==
    /\ pc = "f_write"
    /\ disk' = content
    /\ fix_hist' = Append(fix_hist, content)
    /\ pc' = "f_read"
    /\ UNCHANGED <<script, backup, existing, files_to_add, content,
                   file_entries, groups, collided, orig, result>>

NextFix == FixRead \/ FixApply \/ FixWrite

SpecFix == InitFix /\ [][NextFix]_vars

-----------------------------------------------------------------------------
(* Reading the records of a manifest text.                                 *)

\* the array opener a line at offset i is listed under: the nearest opener
\* before it with no ');' in between (0 when there is none)
Opener(s, i) ==
    LET open == {j \in 1..(i - 1) :
                    /\ s[j] \in {ChildrenOpen, FilesOpen}
                    /\ \A m \in (j + 1)..(i - 1) : s[m] # Close}
    IN  IF open = {} THEN 0 ELSE Max(open)

\* where identifier i is listed among the children of a group record
ChildPlaces(s, i) ==
    {p \in 1..Len(s) : /\ s[p].k = "Child" /\ s[p].id = i
                       /\ Opener(s, p) # 0 /\ s[Opener(s, p)] = ChildrenOpen}

\* where build file i is listed in the files array of a build phase
PhasePlaces(s, i) ==
    {p \in 1..Len(s) : /\ s[p].k = "SourceRef" /\ s[p].id = i
                       /\ Opener(s, p) # 0 /\ s[Opener(s, p)] = FilesOpen}

\* the PBXFileReference records with identifier i
FileRefPlaces(s, i) == {p \in 1..Len(s) : s[p].k = "FileRef" /\ s[p].id = i}

\* the identifiers drawn so far, in the order of the draws
Allocated ==
    (IF groups.core = 0 THEN <<>>
     ELSE <<groups.core, groups.core_mcp, groups.ui_prefs_mcp>>)
    \o Flatten([i \in 1..Len(file_entries) |->
                   <<file_entries[i].file_ref_uuid, file_entries[i].build_file_uuid>>])

\* sym is found from a start offset that was itself found
Located(s, sym, start) == IF start = -1 THEN -1 ELSE Find(s, sym, start)

\* every marker and delimiter the running script derives an offset from is
\* where the script looks for it
StructureFound(s) ==
    /\ Located(s, EndBF, Find(s, BeginBF, 0)) # -1
    /\ Located(s, EndFR, Find(s, BeginFR, 0)) # -1
    /\ Located(s, Close, Located(s, FilesOpen, Find(s, BeginSBP, 0))) # -1
    /\ script = "v2" => Located(s, EndGroup, Find(s, BeginGroup, 0)) # -1

\* a is a subsequence of b, from offsets i and j on
RECURSIVE SubseqFrom(_, _, _, _)
SubseqFrom(a, b, i, j) ==
    IF i > Len(a) THEN TRUE
    ELSE IF j > Len(b) THEN FALSE
    ELSE IF a[i] = b[j] THEN SubseqFrom(a, b, i + 1, j + 1)
    ELSE SubseqFrom(a, b, i, j + 1)

IsSubsequence(a, b) == SubseqFrom(a, b, 1, 1)

SomeSourceMissing == \E i \in 1..Len(files_to_add) : files_to_add[i] \notin existing

-----------------------------------------------------------------------------
(* The claims.                                                             *)

\* C1 (rollback exactness): whenever a patch operation has ended in failure
\* (exit 1, or an uncaught I/O error while writing back), the manifest on
\* disk equals its content before the operation began.
C1_RollbackExact ==
    result \in {"failed", "crashed"} => disk = orig

\* C2 (missing structure is detected): the operation never reports success
\* when a marker or delimiter it derives an offset from is absent, and when
\* it reports failure the manifest is unchanged.
C2_MissingStructureDetected ==
    /\ result = "success" => StructureFound(orig)
    /\ result = "failed" => disk = orig

\* C3 (referential completeness): after a committed operation, every build
\* file record it created references a file reference record present in the
\* manifest, that file reference is listed in the children of exactly one
\* group, and the build file is listed exactly once in a files array
\* (stated for the runs in which no identifier was drawn twice).
C3_ReferentialCompleteness ==
    (result = "success" /\ ~collided) =>
        \A i \in 1..Len(file_entries) :
            /\ FileRefPlaces(disk, file_entries[i].file_ref_uuid) # {}
            /\ Cardinality(ChildPlaces(disk, file_entries[i].file_ref_uuid)) = 1
            /\ Cardinality(PhasePlaces(disk, file_entries[i].build_file_uuid)) = 1

\* C4 (identifier uniqueness): no identifier drawn is present in the
\* manifest as it stood before the operation, and no two draws of one
\* operation are equal.
C4_IdentifierUniqueness ==
    /\ \A i \in 1..Len(Allocated) : Allocated[i] \notin IdsOf(orig)
    /\ \A i, j \in 1..Len(Allocated) : i # j => Allocated[i] # Allocated[j]

\* C5 (additive only): from the moment the manifest is read, through every
\* splice and regex substitution, the pre-operation text is a subsequence of
\* the buffer, and so of the text a successful run has written back.
C5_AdditiveOnly ==
    /\ content # <<>> => IsSubsequence(orig, content)
    /\ result = "success" => IsSubsequence(orig, disk)

\* C5's case: add_to_xcode_v2.py has committed a text longer than the
\* original although a marker it derives an offset from was not found.
C5_Witness ==
    /\ script = "v2" /\ result = "success"
    /\ ~StructureFound(orig)
    /\ Len(disk) > Len(orig)

\* C6 (atomic commit): at every moment of a patch operation the manifest on
\* disk is either the complete pre-operation text or the complete patched
\* text.
C6_AtomicCommit ==
    \/ disk = orig
    \/ pc \in {"a_write", "v_write", "exit"} /\ disk = content

\* C7 (backup before mutation, and retention): the manifest differs from its
\* pre-operation content only once the backup holds that content; a run that
\* succeeded leaves the patched text on disk and the backup in place; a run
\* that failed leaves the manifest equal to its pre-operation content.
C7_BackupGuard ==
    /\ disk # orig => backup = <<orig>>
    /\ result = "success" => disk = content /\ backup = <<orig>>
    /\ result \in {"failed", "crashed"} => disk = orig

\* C8 (missing source file): when an input source path does not exist, the
\* manifest is never read, backed up, mutated or written, and no record is
\* added.
C8_MissingSourceStopsEarly ==
    SomeSourceMissing =>
        /\ content = <<>> /\ backup = <<>> /\ disk = orig
        /\ file_entries = <<>> /\ result # "success"

\* C10 (group linkage): after a committed operation that created group
\* records, each new group's identifier is listed exactly once, in the
\* children of exactly one group (stated for the runs in which no
\* identifier was drawn twice).
C10_GroupLinkage ==
    (script = "v2" /\ result = "success" /\ ~collided) =>
        \A g \in {groups.core, groups.core_mcp, groups.ui_prefs_mcp} :
            Cardinality(ChildPlaces(disk, g)) = 1

\* C9 (PathNormalizer idempotence): running the path correction a second
\* time on its own output changes nothing.
C9_FixIdempotent ==
    Len(fix_hist) >= 2 => fix_hist[2] = fix_hist[1]

=============================================================================
